---------------------------- MODULE Spec2Model ----------------------------
(***************************************************************************)
(* Model of osaca/semantics/marker_utils.py: the marker scanner            *)
(* (reduce_to_section, find_marked_section, match_bytes) and the           *)
(* control-flow partitioners (find_jump_labels, find_basic_blocks,         *)
(* find_basic_loop_bodies).                                                *)
(*                                                                         *)
(* Python values are encoded as follows.  An optional value (None or x) is *)
(* a sequence of length at most one: <<>> is None, <<x>> is x.  List       *)
(* indices are Python's, counted from 0: At(s, k) is s[k].  An             *)
(* OrderedDict is the sequence of its <<key, value>> pairs in insertion    *)
(* order.                                                                  *)
(***************************************************************************)
EXTENDS Integers, Sequences, FiniteSets, TLC

VARIABLES
    isa,            \* reduce_to_section: the isa argument
    lines,          \* the stream (kernel / lines), each line by its source text
    pc,             \* position of the running call
    i,              \* find_marked_section: loop index
    index_start,    \* find_marked_section: index_start
    index_end,      \* find_marked_section: index_end
    result,         \* what reduce_to_section returned or raised
    stdout,         \* find_marked_section: the line indices print() reported
    index,          \* match_bytes: the index argument
    byte_list,      \* match_bytes: the byte_list argument
    match_result,   \* match_bytes: the returned pair
    jump_labels,    \* find_jump_labels: the returned OrderedDict
    blocks,         \* find_basic_blocks: the returned OrderedDict
    loop_bodies     \* find_basic_loop_bodies: the returned OrderedDict

vars == <<isa, lines, pc, i, index_start, index_end, result, stdout,
          index, byte_list, match_result, jump_labels, blocks, loop_bodies>>

-----------------------------------------------------------------------------
(* Bounds of the model *)

MaxLines == 6

MaxLinesAArch64 == 4

MaxByteLines == 3

MaxLabelLines == 5

-----------------------------------------------------------------------------
(* Python helpers *)

None == <<>>

Some(x) == <<x>>

At(s, k) == s[k + 1]

Min(a, b) == IF a < b THEN a ELSE b

\* s[a:b] for 0 <= a, 0 <= b
Slice(s, a, b) == SubSeq(s, a + 1, Min(b, Len(s)))

\* all sequences over S of length 0..n
SeqsUpTo(S, n) == UNION {[1..k -> S] : k \in 0..n}

-----------------------------------------------------------------------------
(* Line records and operands *)

Imm(base, digits) == [tag |-> "immediate", prefix |-> "", name |-> "", base |-> base, digits |-> digits]

Reg(prefix, name) == [tag |-> "register", prefix |-> prefix, name |-> name, base |-> 0, digits |-> <<>>]

Ident(name) == [tag |-> "identifier", prefix |-> "", name |-> name, base |-> 0, digits |-> <<>>]

Line(label, instruction, operands, directive) ==
    [label |-> label, instruction |-> instruction, operands |-> operands, directive |-> directive]

Instr(mnemonic, ops) == Line(None, Some(mnemonic), Some(ops), None)

Directive(name, parameters) == Line(None, None, None, Some([name |-> name, parameters |-> parameters]))

-----------------------------------------------------------------------------
(* The parsers' helpers used by the scanner *)

RECURSIVE DigitsValue(_, _, _)
DigitsValue(base, digits, acc) ==
    IF digits = <<>> THEN acc
    ELSE DigitsValue(base, Tail(digits), acc * base + Head(digits))

\* the immediate's literal ("111", "0x6f") as an integer
normalize_imd(imd) == DigitsValue(imd.base, imd.digits, 0)

\* x86: the register's name; AArch64: prefix and name joined
get_full_reg_name(parser, register) ==
    IF parser = "aarch64" THEN register.prefix \o register.name ELSE register.name

-----------------------------------------------------------------------------
(* match_bytes *)

RECURSIVE match_bytes_scan(_, _, _, _)
match_bytes_scan(ls, idx, extracted_bytes, line_count) ==
    IF /\ idx < Len(ls)
       /\ At(ls, idx).directive # None
       /\ At(ls, idx).directive[1].name = "byte"
    THEN match_bytes_scan(ls, idx + 1,
                          extracted_bytes \o At(ls, idx).directive[1].parameters,
                          line_count + 1)
    ELSE [extracted_bytes |-> extracted_bytes, line_count |-> line_count]

match_bytes_unordered(ls, idx, bytes) ==
    LET r == match_bytes_scan(ls, idx, <<>>, 0)
        got == Slice(r.extracted_bytes, 0, Len(bytes))
    IN  IF Len(got) = Len(bytes) /\ {got[j] : j \in 1..Len(got)} = {bytes[j] : j \in 1..Len(bytes)}
        THEN [match |-> TRUE, line_count |-> r.line_count]
        ELSE [match |-> FALSE, line_count |-> -1]

match_bytes(ls, idx, bytes) ==
    LET r == match_bytes_scan(ls, idx, <<>>, 0)
    IN  IF Slice(r.extracted_bytes, 0, Len(bytes)) = bytes
        THEN [match |-> TRUE, line_count |-> r.line_count]
        ELSE [match |-> FALSE, line_count |-> -1]

-----------------------------------------------------------------------------
(* ISA profiles: the arguments find_marked_kernel_* pass on *)

find_marked_kernel_x86ATT ==
    [parser |-> "x86", mov_instr |-> {"mov", "movl"}, mov_reg |-> "ebx",
     mov_vals |-> <<111, 222>>, nop_bytes |-> <<"100", "103", "144">>, reverse |-> FALSE]

find_marked_kernel_AArch64 ==
    [parser |-> "aarch64", mov_instr |-> {"mov"}, mov_reg |-> "x1",
     mov_vals |-> <<111, 222>>, nop_bytes |-> <<"213", "3", "32", "31">>, reverse |-> TRUE]

Profile(a) == IF a = "x86" THEN find_marked_kernel_x86ATT ELSE find_marked_kernel_AArch64

SupportedISAs == {"x86", "aarch64"}

\* str.lower() on the ISA names the model passes
Lower(a) == CASE a = "AArch64" -> "aarch64" [] a = "X86" -> "x86" [] OTHER -> a

-----------------------------------------------------------------------------
(* find_marked_section: one iteration of the loop over the lines *)

RecordStartFirstWins(old, k, line_count) == IF old # -1 THEN old ELSE k + 1 + line_count

\* index_start after a start marker matched at line k
RecordStart(old, k, line_count) == k + 1 + line_count

\* index_end after an end marker matched at line k
RecordEnd(old, k) == k

\* the operands of line k match the marker move of value val
OperandsMatch(prof, source, destination, val) ==
    /\ source.tag = "immediate"
    /\ normalize_imd(source) = val
    /\ destination.tag = "register"
    /\ get_full_reg_name(prof.parser, destination) = prof.mov_reg

\* the try block for line k: the exception it raises (if any) and the indices
ScanLine(ls, k, prof, s, e) ==
    LET line == At(ls, k)
        same == [exc |-> "none", index_start |-> s, index_end |-> e]
        src  == IF prof.reverse THEN 1 ELSE 0
        dst  == IF prof.reverse THEN 0 ELSE 1
    IN  IF line.instruction = None \/ line.instruction[1] \notin prof.mov_instr
        THEN same
        ELSE IF k + 1 >= Len(ls)
        THEN [same EXCEPT !.exc = "IndexError"]          \* lines[i + 1]
        ELSE IF At(ls, k + 1).directive = None
        THEN same
        ELSE IF line.operands = None
        THEN [same EXCEPT !.exc = "TypeError"]           \* None[0]
        ELSE IF Len(line.operands[1]) <= src \/ Len(line.operands[1]) <= dst
        THEN [same EXCEPT !.exc = "IndexError"]          \* line.operands[...]
        ELSE
            LET source      == At(line.operands[1], src)
                destination == At(line.operands[1], dst)
                m           == match_bytes(ls, k + 1, prof.nop_bytes)
            IN  IF OperandsMatch(prof, source, destination, prof.mov_vals[1])
                THEN IF m.match
                     THEN [same EXCEPT !.index_start = RecordStart(s, k, m.line_count)]
                     ELSE same
                ELSE IF OperandsMatch(prof, source, destination, prof.mov_vals[2])
                THEN IF m.match
                     THEN [same EXCEPT !.index_end = RecordEnd(e, k)]
                     ELSE same
                ELSE same

-----------------------------------------------------------------------------
(* Source lines the model runs the functions on *)

\* x86 AT&T lines for the marker scanner
X86Lines ==
    {"movl $111, %ebx", "movl $222, %ebx", ".byte 100,103,144", "addl %eax, %ebx", "movl %ebx"}

\* AArch64 lines for the marker scanner
AArch64Lines ==
    {"mov x1, #0x6f", "mov x1, #222", ".byte 213,3,32,31", "mov x2, #111", "mov", ".text"}

\* lines for match_bytes
ByteLines ==
    {".byte 100,103,144", ".byte 100", ".byte 103,144", ".byte 144,103,100", ".text",
     "addl %eax, %ebx"}

\* lines for the partitioners
LabelLines ==
    {"L1:", "L2:", "nop", "add", "jmp L1", "jmp L2", "jne L2, L1", "L1: .p2align 4"}

SourceLines == X86Lines \cup AArch64Lines \cup ByteLines \cup LabelLines

\* the parser's record of each source line the model uses
LineRecord(text) ==
    CASE text = "movl $111, %ebx"   -> Instr("movl", <<Imm(10, <<1, 1, 1>>), Reg("", "ebx")>>)
      [] text = "movl $222, %ebx"   -> Instr("movl", <<Imm(10, <<2, 2, 2>>), Reg("", "ebx")>>)
      [] text = ".byte 100,103,144" -> Directive("byte", <<"100", "103", "144">>)
      [] text = "addl %eax, %ebx"   -> Instr("addl", <<Reg("", "eax"), Reg("", "ebx")>>)
      [] text = "movl %ebx"         -> Instr("movl", <<Reg("", "ebx")>>)
      [] text = "mov x1, #0x6f"     -> Instr("mov", <<Reg("x", "1"), Imm(16, <<6, 15>>)>>)
      [] text = "mov x1, #222"      -> Instr("mov", <<Reg("x", "1"), Imm(10, <<2, 2, 2>>)>>)
      [] text = ".byte 213,3,32,31" -> Directive("byte", <<"213", "3", "32", "31">>)
      [] text = "mov x2, #111"      -> Instr("mov", <<Reg("x", "2"), Imm(10, <<1, 1, 1>>)>>)
      [] text = "mov"               -> Line(None, Some("mov"), None, None)
      [] text = ".text"             -> Directive("text", <<>>)
      [] text = ".byte 100"         -> Directive("byte", <<"100">>)
      [] text = ".byte 103,144"     -> Directive("byte", <<"103", "144">>)
      [] text = ".byte 144,103,100" -> Directive("byte", <<"144", "103", "100">>)
      [] text = "L1:"               -> Line(Some("L1"), None, None, None)
      [] text = "L2:"               -> Line(Some("L2"), None, None, None)
      [] text = "nop"               -> Instr("nop", <<>>)
      [] text = "add"               -> Instr("add", <<>>)
      [] text = "jmp L1"            -> Instr("jmp", <<Ident("L1")>>)
      [] text = "jmp L2"            -> Instr("jmp", <<Ident("L2")>>)
      [] text = "jne L2, L1"        -> Instr("jne", <<Ident("L2"), Ident("L1")>>)
      [] text = "L1: .p2align 4"    -> Line(Some("L1"), Some(".p2align"), Some(<<Imm(10, <<4>>)>>), None)

ParsedLines == [text \in SourceLines |-> LineRecord(text)]

parse_line(text) == ParsedLines[text]

\* the parsed stream of a sequence of source lines
Parsed(texts) == [k \in 1..Len(texts) |-> parse_line(texts[k])]

-----------------------------------------------------------------------------
(* reduce_to_section on a stream *)

\* the streams reduce_to_section is run on, by ISA
Streams(a) ==
    IF Lower(a) = "x86" THEN SeqsUpTo(X86Lines, MaxLines)
    ELSE IF Lower(a) = "aarch64" THEN SeqsUpTo(AArch64Lines, MaxLinesAArch64)
    ELSE SeqsUpTo(X86Lines, 1)

NoResult == [kind |-> "none", kernel |-> <<>>]

NoMatch == [match |-> FALSE, line_count |-> 0]

Idle ==
    /\ index = 0 /\ byte_list = <<>> /\ match_result = NoMatch
    /\ jump_labels = <<>> /\ blocks = <<>> /\ loop_bodies = <<>>

InitMarker ==
    /\ isa \in {"x86", "AArch64", "riscv"}
    /\ lines \in Streams(isa)
    /\ pc = "call"
    /\ i = 0 /\ index_start = -1 /\ index_end = -1
    /\ result = NoResult /\ stdout = <<>>
    /\ Idle

\* reduce_to_section, lines 8-14: the ISA dispatch
reduce_to_section ==
    /\ pc = "call"
    /\ isa' = Lower(isa)
    /\ IF Lower(isa) \in SupportedISAs
       THEN pc' = "scan" /\ result' = result
       ELSE pc' = "done" /\ result' = [kind |-> "ValueError", kernel |-> <<>>]
    /\ UNCHANGED <<lines, i, index_start, index_end, stdout, index, byte_list,
                   match_result, jump_labels, blocks, loop_bodies>>

\* find_marked_section, lines 37-68: one iteration
find_marked_section ==
    /\ pc = "scan" /\ i < Len(lines)
    /\ LET r == ScanLine(Parsed(lines), i, Profile(isa), index_start, index_end)
       IN  IF r.exc = "IndexError"
           THEN /\ pc' = "done"
                /\ result' = [kind |-> "IndexError", kernel |-> <<>>]
                /\ UNCHANGED <<i, index_start, index_end, stdout>>
           ELSE /\ index_start' = r.index_start
                /\ index_end' = r.index_end
                /\ stdout' = IF r.exc = "TypeError" THEN Append(stdout, i) ELSE stdout
                /\ IF r.index_start # -1 /\ r.index_end # -1
                   THEN pc' = "return" /\ i' = i
                   ELSE pc' = "scan" /\ i' = i + 1
                /\ result' = result
    /\ UNCHANGED <<isa, lines, index, byte_list, match_result, jump_labels, blocks, loop_bodies>>

\* find_marked_section, lines 37 and 69: the stream is exhausted
find_marked_section_return ==
    /\ pc = "scan" /\ i = Len(lines)
    /\ pc' = "return"
    /\ UNCHANGED <<isa, lines, i, index_start, index_end, result, stdout, index, byte_list,
                   match_result, jump_labels, blocks, loop_bodies>>

\* reduce_to_section, lines 15-19
reduce_to_section_return ==
    /\ pc = "return"
    /\ pc' = "done"
    /\ result' = IF index_start = -1
                 THEN [kind |-> "StartMarkerNotFound", kernel |-> <<>>]
                 ELSE IF index_end = -1
                 THEN [kind |-> "EndMarkerNotFound", kernel |-> <<>>]
                 ELSE [kind |-> "ok", kernel |-> Slice(lines, index_start, index_end)]
    /\ UNCHANGED <<isa, lines, i, index_start, index_end, stdout, index, byte_list,
                   match_result, jump_labels, blocks, loop_bodies>>

NextMarker ==
    \/ reduce_to_section
    \/ find_marked_section
    \/ find_marked_section_return
    \/ reduce_to_section_return

SpecMarker == InitMarker /\ [][NextMarker]_vars

-----------------------------------------------------------------------------
(* match_bytes on its own *)

ExpectedLists ==
    {<<"100", "103", "144">>, <<"144", "103", "100">>, <<"100">>, <<"103", "144", "100">>}

InitBytes ==
    /\ lines \in SeqsUpTo(ByteLines, MaxByteLines)
    /\ index \in 0..Len(lines)
    /\ byte_list \in ExpectedLists
    /\ pc = "match_call"
    /\ match_result = NoMatch
    /\ isa = "x86" /\ i = 0 /\ index_start = -1 /\ index_end = -1
    /\ result = NoResult /\ stdout = <<>>
    /\ jump_labels = <<>> /\ blocks = <<>> /\ loop_bodies = <<>>

match_bytes_call ==
    /\ pc = "match_call"
    /\ match_result' = match_bytes(Parsed(lines), index, byte_list)
    /\ pc' = "match_done"
    /\ UNCHANGED <<isa, lines, i, index_start, index_end, result, stdout, index, byte_list,
                   jump_labels, blocks, loop_bodies>>

NextBytes == match_bytes_call

SpecBytes == InitBytes /\ [][NextBytes]_vars

-----------------------------------------------------------------------------
(* OrderedDict: the <<key, value>> pairs in insertion order *)

DictKeys(d) == [j \in 1..Len(d) |-> d[j][1]]

DictHas(d, key) == \E j \in 1..Len(d) : d[j][1] = key

DictGet(d, key) == d[CHOOSE j \in 1..Len(d) : d[j][1] = key][2]

\* d[key] = value: an existing key keeps its place
DictSet(d, key, value) ==
    IF DictHas(d, key)
    THEN [j \in 1..Len(d) |-> IF d[j][1] = key THEN <<key, value>> ELSE d[j]]
    ELSE Append(d, <<key, value>>)

-----------------------------------------------------------------------------
(* find_jump_labels *)

\* str.startswith('.') on the mnemonics the model uses
StartsWithDot(mnemonic) == mnemonic \in {".p2align", ".text", ".byte"}

\* bool(x) of an optional string
TruthyStr(opt) == opt # None /\ opt[1] # ""

\* bool(x) of an optional list
TruthyList(opt) == opt # None /\ opt[1] # <<>>

RECURSIVE LabelRanges(_, _, _, _)
\* lines 98-109: the pass over the lines from index k on
LabelRanges(ls, k, labels, current_label) ==
    IF k >= Len(ls)
    THEN [labels |-> labels, current_label |-> current_label]
    ELSE LET line == At(ls, k)
         IN  IF line.label # None
             THEN LET opened == DictSet(labels, line.label[1], <<k>>)
                      closed == IF current_label # None
                                THEN DictSet(opened, current_label[1],
                                             <<DictGet(opened, current_label[1])[1], k>>)
                                ELSE opened
                  IN  LabelRanges(ls, k + 1, closed, line.label)
             ELSE LabelRanges(ls, k + 1, labels, current_label)

\* lines 111-112: the last label's range ends at the end of the stream
CloseLastLabel(ls, r) ==
    IF r.current_label # None /\ Len(DictGet(r.labels, r.current_label[1])) = 1
    THEN DictSet(r.labels, r.current_label[1],
                 <<DictGet(r.labels, r.current_label[1])[1], (Len(ls) - 1) + 1>>)
    ELSE r.labels

OnlyDotInstructionsNoneCounts(ls, range) ==
    LET span == Slice(ls, range[1], range[2])
    IN  \A j \in 1..Len(span) :
            span[j].instruction # None /\ StartsWithDot(span[j].instruction[1])

\* line 116: every instruction in the label's range starts with a dot
OnlyDotInstructions(ls, range) ==
    LET span == Slice(ls, range[1], range[2])
    IN  \A j \in 1..Len(span) :
            span[j].instruction # None => StartsWithDot(span[j].instruction[1])

find_jump_labels(ls) ==
    LET labels == CloseLastLabel(ls, LabelRanges(ls, 0, <<>>, None))
        keep(pair) == ~OnlyDotInstructions(ls, pair[2])
        kept == SelectSeq(labels, keep)
    IN  [j \in 1..Len(kept) |-> <<kept[j][1], At(ls, kept[j][2][1])>>]

-----------------------------------------------------------------------------
(* find_basic_blocks *)

\* list.index(x): the first index whose element equals x
ListIndex(ls, x) == CHOOSE k \in 0..(Len(ls) - 1) :
                        At(ls, k) = x /\ \A j \in 0..(k - 1) : At(ls, j) # x

BlockTerminatesOnReferenceOnly(line, valid_jump_labels) ==
    /\ TruthyStr(line.instruction) /\ TruthyList(line.operands)
    /\ \E j \in 1..Len(line.operands[1]) :
          /\ line.operands[1][j].tag = "identifier"
          /\ DictHas(valid_jump_labels, line.operands[1][j].name)

\* lines 143-148: the line ends the block
BlockTerminates(line, valid_jump_labels) ==
    IF TruthyStr(line.instruction) /\ TruthyList(line.operands)
    THEN \E j \in 1..Len(line.operands[1]) :
            /\ line.operands[1][j].tag = "identifier"
            /\ DictHas(valid_jump_labels, line.operands[1][j].name)
    ELSE line.label # None

RECURSIVE BlockWalk(_, _, _, _, _)
\* lines 138-150: the walk over range(lines.index(label_line)) from k on
BlockWalk(ls, k, stop, valid_jump_labels, block) ==
    IF k >= stop THEN block
    ELSE IF BlockTerminates(At(ls, k), valid_jump_labels)
         THEN Append(block, At(ls, k))
         ELSE BlockWalk(ls, k + 1, stop, valid_jump_labels, Append(block, At(ls, k)))

find_basic_blocks(ls) ==
    LET valid_jump_labels == find_jump_labels(ls)
    IN  [j \in 1..Len(valid_jump_labels) |->
            <<valid_jump_labels[j][1],
              BlockWalk(ls, 0, ListIndex(ls, valid_jump_labels[j][2]), valid_jump_labels, <<>>)>>]

-----------------------------------------------------------------------------
(* find_basic_loop_bodies *)

\* lines 173-179: the names of the line's identifier operands that are valid
\* jump labels, in operand order (the loop acts on the first and breaks)
ValidReferences(line, valid_jump_labels) ==
    IF TruthyStr(line.instruction) /\ TruthyList(line.operands)
    THEN LET refers(o) == o.tag = "identifier" /\ DictHas(valid_jump_labels, o.name)
             refs == SelectSeq(line.operands[1], refers)
         IN  [j \in 1..Len(refs) |-> refs[j].name]
    ELSE <<>>

ActingReferenceLast(refs) == refs[Len(refs)]

\* line 176: the reference the walk acts on
ActingReference(refs) == Head(refs)

RECURSIVE LoopWalk(_, _, _, _, _)
\* lines 168-181: the walk from index k on; None when no body is recorded
LoopWalk(ls, k, label, valid_jump_labels, current_block) ==
    IF k >= Len(ls) THEN None
    ELSE LET refs == ValidReferences(At(ls, k), valid_jump_labels)
             grown == Append(current_block, At(ls, k))
         IN  IF refs # <<>>
             THEN IF ActingReference(refs) = label THEN Some(grown) ELSE None
             ELSE LoopWalk(ls, k + 1, label, valid_jump_labels, grown)

RECURSIVE LoopBodies(_, _, _, _)
\* lines 166-181: the loop over the valid jump labels from position j on
LoopBodies(ls, valid_jump_labels, j, loops) ==
    IF j > Len(valid_jump_labels) THEN loops
    ELSE LET label == valid_jump_labels[j][1]
             body  == LoopWalk(ls, ListIndex(ls, valid_jump_labels[j][2]), label,
                               valid_jump_labels, <<>>)
         IN  LoopBodies(ls, valid_jump_labels, j + 1,
                        IF body # None THEN DictSet(loops, label, body[1]) ELSE loops)

find_basic_loop_bodies(ls) == LoopBodies(ls, find_jump_labels(ls), 1, <<>>)

-----------------------------------------------------------------------------
(* The partitioners on a stream *)

InitLabels ==
    /\ lines \in SeqsUpTo(LabelLines, MaxLabelLines)
    /\ pc = "call"
    /\ jump_labels = <<>> /\ blocks = <<>> /\ loop_bodies = <<>>
    /\ isa = "x86" /\ i = 0 /\ index_start = -1 /\ index_end = -1
    /\ result = NoResult /\ stdout = <<>>
    /\ index = 0 /\ byte_list = <<>> /\ match_result = NoMatch

find_jump_labels_call ==
    /\ pc = "call"
    /\ jump_labels' = find_jump_labels(Parsed(lines))
    /\ pc' = "labels_done"
    /\ UNCHANGED <<isa, lines, i, index_start, index_end, result, stdout, index, byte_list,
                   match_result, blocks, loop_bodies>>

find_basic_blocks_call ==
    /\ pc = "call"
    /\ blocks' = find_basic_blocks(Parsed(lines))
    /\ pc' = "blocks_done"
    /\ UNCHANGED <<isa, lines, i, index_start, index_end, result, stdout, index, byte_list,
                   match_result, jump_labels, loop_bodies>>

find_basic_loop_bodies_call ==
    /\ pc = "call"
    /\ loop_bodies' = find_basic_loop_bodies(Parsed(lines))
    /\ pc' = "loops_done"
    /\ UNCHANGED <<isa, lines, i, index_start, index_end, result, stdout, index, byte_list,
                   match_result, jump_labels, blocks>>

NextLabels ==
    \/ find_jump_labels_call
    \/ find_basic_blocks_call
    \/ find_basic_loop_bodies_call

SpecLabels == InitLabels /\ [][NextLabels]_vars

-----------------------------------------------------------------------------
(* Markers as the specification describes them *)

IsByteLine(l) == l.directive # None /\ l.directive[1].name = "byte"

Max(S) == CHOOSE m \in S : \A x \in S : x <= m

\* number of consecutive byte-directive lines right after line s
PayloadLen(ls, s) ==
    Max({n \in 0..(Len(ls) - s - 1) : \A j \in 1..n : IsByteLine(At(ls, s + j))})

RECURSIVE PayloadBytes(_, _, _)
\* parameters of lines first..last, concatenated
PayloadBytes(ls, first, last) ==
    IF first > last THEN <<>>
    ELSE At(ls, first).directive[1].parameters \o PayloadBytes(ls, first + 1, last)

BeginsWith(s, prefix) ==
    /\ Len(prefix) <= Len(s)
    /\ \A j \in 1..Len(prefix) : s[j] = prefix[j]

\* line s moves the immediate val into the marker register
MarkerMove(ls, s, val, prof) ==
    LET l == At(ls, s)
    IN  /\ l.instruction # None /\ l.instruction[1] \in prof.mov_instr
        /\ l.operands # None /\ Len(l.operands[1]) = 2
        /\ LET source      == l.operands[1][IF prof.reverse THEN 2 ELSE 1]
               destination == l.operands[1][IF prof.reverse THEN 1 ELSE 2]
           IN  /\ source.tag = "immediate" /\ normalize_imd(source) = val
               /\ destination.tag = "register"
               /\ get_full_reg_name(prof.parser, destination) = prof.mov_reg

\* a well-formed marker of value val at line s
WellFormedMarker(ls, s, val, prof) ==
    /\ MarkerMove(ls, s, val, prof)
    /\ PayloadLen(ls, s) >= 1
    /\ BeginsWith(PayloadBytes(ls, s + 1, s + PayloadLen(ls, s)), prof.nop_bytes)

\* the lines below n that hold a well-formed marker of value val
MarkersBelow(ls, val, prof, n) == {s \in 0..(n - 1) : WellFormedMarker(ls, s, val, prof)}

StartMarkers == MarkersBelow(Parsed(lines), 111, Profile(isa), Len(lines))

EndMarkers == MarkersBelow(Parsed(lines), 222, Profile(isa), Len(lines))

\* the move-type line k is followed by a directive line and its operand access fails
MalformedAt(ls, k) ==
    LET l == At(ls, k)
    IN  /\ l.instruction # None /\ l.instruction[1] \in Profile(isa).mov_instr
        /\ k + 1 < Len(ls) /\ At(ls, k + 1).directive # None
        /\ (l.operands = None \/ Len(l.operands[1]) < 2)

\* lines the scan has been through
Processed == IF pc = "scan" THEN i ELSE Min(i + 1, Len(lines))

Scanning == isa \in SupportedISAs /\ pc \in {"scan", "return"}

Reduced == isa \in SupportedISAs /\ pc = "done"

-----------------------------------------------------------------------------
(* C1 *)

\* C1: with exactly one well-formed start marker at s (payload of p lines) and
\* exactly one well-formed end marker at a later line e, reduce_to_section
\* returns exactly lines[s+1+p .. e-1]; the x86 scenario yields [addl %eax, %ebx].
C1_KernelBetweenMarkers ==
    (/\ Reduced
     /\ Cardinality(StartMarkers) = 1 /\ Cardinality(EndMarkers) = 1
     /\ Max(StartMarkers) < Max(EndMarkers))
    => LET s == Max(StartMarkers)
           e == Max(EndMarkers)
           p == PayloadLen(Parsed(lines), s)
       IN  /\ result = [kind |-> "ok", kernel |-> SubSeq(lines, s + 1 + p + 1, e)]
           /\ lines = <<"movl $111, %ebx", ".byte 100,103,144", "addl %eax, %ebx",
                        "movl $222, %ebx", ".byte 100,103,144">>
              => result.kernel = <<"addl %eax, %ebx">>

(* C2 *)

\* C2: for a supported ISA, a stream without a start marker makes
\* reduce_to_section fail with the START MARKER lookup failure and nothing else.
C2_NoStartMarkerFails ==
    (Reduced /\ StartMarkers = {}) => result.kind = "StartMarkerNotFound"

(* C7 *)

\* index_start as the latest start marker among the first n lines sets it
LatestStart(ls, n) ==
    LET seen == MarkersBelow(ls, 111, Profile(isa), n)
    IN  IF seen = {} THEN -1 ELSE Max(seen) + 1 + PayloadLen(ls, Max(seen))

\* index_end as the latest end marker among the first n lines sets it
LatestEnd(ls, n) ==
    LET seen == MarkersBelow(ls, 222, Profile(isa), n)
    IN  IF seen = {} THEN -1 ELSE Max(seen)

\* C7 (as the claim states it): once recorded, index_start is never overwritten
\* by a later start marker, and index_end never by a later end marker.
C7_FirstMatchWins ==
    [][/\ index_start # -1 => index_start' = index_start
       /\ index_end # -1 => index_end' = index_end]_vars

\* C7 (amended): while the scan runs the latest match wins: index_start is the
\* line after the payload of the latest well-formed start marker gone through,
\* index_end the line of the latest well-formed end marker gone through.
C7_LatestMatchWins ==
    Scanning => LET ls == Parsed(lines)
                IN  /\ index_start = LatestStart(ls, Processed)
                    /\ index_end = LatestEnd(ls, Processed)

\* two start markers before the end marker: the scan returned the second's index
C7_Witness ==
    /\ Scanning /\ pc = "return"
    /\ Cardinality(StartMarkers) >= 2 /\ EndMarkers # {}
    /\ index_end # -1
    /\ index_start = LatestStart(Parsed(lines), index_end)
    /\ \E s \in StartMarkers : s + 1 + PayloadLen(Parsed(lines), s) < index_start

(* C8 *)

\* C8: a move-type line followed by a directive line whose operand access fails
\* does not abort the scan: the scan goes on with the next line, indices untouched.
C8_MalformedLineSkipped ==
    [][(pc = "scan" /\ i < Len(lines) /\ MalformedAt(Parsed(lines), i))
       => (pc' = "scan" /\ i' = i + 1
           /\ index_start' = index_start /\ index_end' = index_end)]_vars

(* C10 *)

\* C10: when find_marked_section returns both indices, they form a valid range:
\* 0 <= index_start <= index_end < len(lines).
C10_ValidRange ==
    (isa \in SupportedISAs /\ pc \in {"return", "done"}
     /\ index_start # -1 /\ index_end # -1)
    => (0 <= index_start /\ index_start <= index_end /\ index_end < Len(lines))

-----------------------------------------------------------------------------
(* C9 *)

\* number of consecutive byte-directive lines from line idx on
RunLen(ls, idx) ==
    Max({n \in 0..(Len(ls) - idx) : \A j \in 0..(n - 1) : IsByteLine(At(ls, idx + j))})

\* the parameters of that run, concatenated
RunBytes(ls, idx) == PayloadBytes(ls, idx, idx + RunLen(ls, idx) - 1)

\* s is a reordering of t
IsPermutation(s, t) ==
    /\ Len(s) = Len(t)
    /\ \A x \in {s[j] : j \in 1..Len(s)} \cup {t[j] : j \in 1..Len(t)} :
          Cardinality({j \in 1..Len(s) : s[j] = x}) = Cardinality({j \in 1..Len(t) : t[j] = x})

\* C9: match_bytes returns (True, n) iff the concatenated parameters of the
\* maximal run of n byte-directive lines at index begin with the expected list,
\* element by element and in order; otherwise (False, -1).  A payload that is a
\* different ordering of the expected list does not match.
C9_MatchBytes ==
    pc = "match_done" =>
        LET ls == Parsed(lines)
        IN  /\ match_result =
                  IF BeginsWith(RunBytes(ls, index), byte_list)
                  THEN [match |-> TRUE, line_count |-> RunLen(ls, index)]
                  ELSE [match |-> FALSE, line_count |-> -1]
            /\ (IsPermutation(RunBytes(ls, index), byte_list)
                /\ RunBytes(ls, index) # byte_list) => ~match_result.match

\* a payload spread over several byte lines, after the start of the stream, matched
C9_Witness ==
    /\ pc = "match_done" /\ index > 0
    /\ match_result.match /\ match_result.line_count >= 2
    /\ Len(byte_list) = 3
    /\ ~IsByteLine(At(Parsed(lines), index - 1))
    /\ Len(At(Parsed(lines), index).directive[1].parameters) < 3

-----------------------------------------------------------------------------
(* Labels as the specification describes them *)

HasLabel(ls, k) == At(ls, k).label # None

DistinctLabels(ls) ==
    \A a, b \in 0..(Len(ls) - 1) :
        (a # b /\ HasLabel(ls, a) /\ HasLabel(ls, b)) => At(ls, a).label # At(ls, b).label

LabelNames(ls) == {At(ls, k).label[1] : k \in {j \in 0..(Len(ls) - 1) : HasLabel(ls, j)}}

\* the line of label name (labels distinct)
LabelIndex(ls, name) == CHOOSE k \in 0..(Len(ls) - 1) : At(ls, k).label = Some(name)

\* the end of the span that starts at the label line k
SpanEnd(ls, k) ==
    LET later == {j \in (k + 1)..(Len(ls) - 1) : HasLabel(ls, j)}
    IN  IF later = {} THEN Len(ls) ELSE CHOOSE j \in later : \A x \in later : j <= x

\* the span of the label at line k holds a non-directive instruction
SpanHasInstruction(ls, k) ==
    \E j \in k..(SpanEnd(ls, k) - 1) :
        At(ls, j).instruction # None /\ ~StartsWithDot(At(ls, j).instruction[1])

ToSet(s) == {s[j] : j \in 1..Len(s)}

(* C3 *)

\* C3: with distinct label names, a label is a key of find_jump_labels iff its
\* span holds a non-directive instruction, and each key maps to its label line.
C3_JumpLabels ==
    (pc = "labels_done" /\ DistinctLabels(Parsed(lines))) =>
        LET ls == Parsed(lines)
        IN  /\ ToSet(DictKeys(jump_labels)) =
                  {name \in LabelNames(ls) : SpanHasInstruction(ls, LabelIndex(ls, name))}
            /\ \A j \in 1..Len(jump_labels) :
                  jump_labels[j][2] = At(ls, LabelIndex(ls, jump_labels[j][1]))

\* a label followed by dot-instructions only is left out, a later one is kept
C3_Witness ==
    /\ pc = "labels_done" /\ DistinctLabels(Parsed(lines))
    /\ Len(lines) >= 3 /\ lines[1] = "L1: .p2align 4" /\ lines[2] = "L2:"
    /\ DictKeys(jump_labels) = <<"L2">>

(* C4 *)

Scenario4 == <<"L1:", "nop", "jmp L2", "L2:", "nop">>

References(line, valid) ==
    /\ line.instruction # None /\ line.instruction[1] # ""
    /\ line.operands # None
    /\ \E j \in 1..Len(line.operands[1]) :
          line.operands[1][j].tag = "identifier" /\ line.operands[1][j].name \in valid

\* the label named by the first such operand of a referencing line
FirstReference(line, valid) ==
    LET ops == line.operands[1]
        at  == CHOOSE j \in 1..Len(ops) :
                  /\ ops[j].tag = "identifier" /\ ops[j].name \in valid
                  /\ \A h \in 1..(j - 1) : ~(ops[h].tag = "identifier" /\ ops[h].name \in valid)
    IN  ops[at].name

\* the first referencing line from line k on, or -1
FirstReferencingLine(ls, k, valid) ==
    LET hits == {j \in k..(Len(ls) - 1) : References(At(ls, j), valid)}
    IN  IF hits = {} THEN -1 ELSE CHOOSE j \in hits : \A x \in hits : j <= x

\* C5: with distinct label names, a valid jump label L is a key of
\* find_basic_loop_bodies iff the first reference to a valid jump label met
\* walking forward from L's line names L; the body is then the lines from L's
\* line through the referencing line.  [L1:, add, jmp L1] gives L1 all three.
C5_LoopBodies ==
    (pc = "loops_done" /\ DistinctLabels(Parsed(lines))) =>
        LET ls    == Parsed(lines)
            valid == ToSet(DictKeys(find_jump_labels(ls)))
        IN  /\ ToSet(DictKeys(loop_bodies)) \subseteq valid
            /\ \A name \in valid :
                  LET k == LabelIndex(ls, name)
                      r == FirstReferencingLine(ls, k, valid)
                  IN  IF r # -1 /\ FirstReference(At(ls, r), valid) = name
                      THEN /\ DictHas(loop_bodies, name)
                           /\ DictGet(loop_bodies, name) = SubSeq(ls, k + 1, r + 1)
                      ELSE ~DictHas(loop_bodies, name)
            /\ lines = <<"L1:", "add", "jmp L1">>
               => loop_bodies = << <<"L1", ls>> >>

\* one label loops back on itself, another leaves to a different label first
C5_Witness ==
    /\ pc = "loops_done" /\ DistinctLabels(Parsed(lines))
    /\ DictKeys(find_jump_labels(Parsed(lines))) = <<"L1", "L2">>
    /\ DictKeys(loop_bodies) = <<"L2">>
    /\ Len(DictGet(loop_bodies, "L2")) >= 2
    /\ \E k \in 1..Len(lines) : lines[k] = "jne L2, L1"

(* C6 *)

\* the line ends a block: it references a valid jump label or carries a label
EndsBlock(line, valid) == References(line, valid) \/ line.label # None

\* C6: find_basic_blocks has the keys of find_jump_labels, and the block of L is
\* lines[0..k] for the smallest k below idx(L) whose line references a valid
\* jump label or carries a label, else lines[0..idx(L)-1].  (Stated for the
\* streams with distinct label names, where idx(L) is beyond doubt.)
C6_BasicBlocks ==
    (pc = "blocks_done" /\ DistinctLabels(Parsed(lines))) =>
        LET ls     == Parsed(lines)
            labels == find_jump_labels(ls)
            valid  == ToSet(DictKeys(labels))
        IN  /\ DictKeys(blocks) = DictKeys(labels)
            /\ \A j \in 1..Len(labels) :
                  LET idx  == ListIndex(ls, labels[j][2])
                      ends == {k \in 0..(idx - 1) : EndsBlock(At(ls, k), valid)}
                      last == IF ends = {} THEN idx - 1
                              ELSE CHOOSE k \in ends : \A x \in ends : k <= x
                  IN  blocks[j][2] = SubSeq(ls, 1, last + 1)

=============================================================================
